---- MODULE Spec2Model ----
(***************************************************************************)
(* gcoordinator-lite: the contour kernel (utils/contour.py: find_contours  *)
(* and _connect_segments_fast) and the ray-casting containment test        *)
(* (utils/polygon.py: points_in_polygon).                                  *)
(*                                                                         *)
(* Numbers.  Coordinates are exact rationals <<n, d>> (d > 0, lowest       *)
(* terms).  Sequence indices are 1-based: segment k of the model is        *)
(* seg_idx k-1 of the code.                                                *)
(*   Spec         stitches arbitrary segment lists; the tolerance is the   *)
(*                function's parameter, drawn from StitchTolerances.       *)
(*   SpecContour  runs find_contours.  A grid coordinate k stands for      *)
(*                k * 2^-28 and a sample value v for v * 2^-34, so that    *)
(*                the two absolute thresholds of the code, 1e-8 and 1e-10, *)
(*                fall between small integers: 1e-8 is 2^20/5^8 coordinate *)
(*                units and 1e-10 is 2^24/5^10 value units.                *)
(*   SpecPolygon  runs points_in_polygon on integer coordinates.           *)
(***************************************************************************)
EXTENDS Integers, Sequences, FiniteSets, TLC

VARIABLES
  segments,   \* _connect_segments_fast: the segment list (find_contours: all_segments)
  tolerance,  \* _connect_segments_fast: the tolerance parameter, a rational
  used,       \* used[seg_idx]
  paths,      \* the paths emitted so far
  path,       \* the path being built
  start_idx,  \* the for loop's index over the segments
  dirIdx,     \* position in the direction list [1, 0]
  pathSegs,   \* history: for each emitted path, the segments joining its points
  seeds,      \* history: for each emitted path, the segment that seeded it
  curSegs,    \* history: the same for the path being built
  x, y,       \* find_contours: the grid coordinates
  z,          \* find_contours: [shape |-> <<ny, nx>>, val |-> the samples]
  level,      \* find_contours: the level
  segCell,    \* history: for each segment, its cell and its two edges
  points,     \* points_in_polygon: the query points
  polygon,    \* points_in_polygon: the polygon, as given and then closed
  inside,     \* points_in_polygon: the returned array
  call,       \* 1 in the first call, 2 in the caller's second call
  scale,      \* the factor applied to the inputs of the second call
  ref,        \* the first call's output
  pc          \* the position in the running function

stitchVars == <<segments, tolerance, used, paths, path, start_idx, dirIdx, pathSegs, seeds, curSegs>>
gridVars == <<x, y, z, level>>
polyVars == <<points, polygon, inside>>
callVars == <<call, scale, ref>>
vars == <<segments, tolerance, used, paths, path, start_idx, dirIdx, pathSegs, seeds, curSegs,
          x, y, z, level, segCell, points, polygon, inside, call, scale, ref, pc>>

----------------------------------------------------------------------------
(* Exact rationals. *)

Abs(n) == IF n < 0 THEN -n ELSE n

RECURSIVE GCD(_, _)
GCD(a, b) == IF b = 0 THEN a ELSE GCD(b, a % b)

Rat(n, d) ==
  LET g == GCD(Abs(n), Abs(d))
      s == IF d < 0 THEN -1 ELSE 1
  IN <<(s * n) \div g, (s * d) \div g>>

RatInt(k) == <<k, 1>>
RatAdd(a, b) == Rat(a[1] * b[2] + b[1] * a[2], a[2] * b[2])
RatSub(a, b) == Rat(a[1] * b[2] - b[1] * a[2], a[2] * b[2])
RatMul(a, b) == Rat(a[1] * b[1], a[2] * b[2])
RatDiv(a, b) == Rat(a[1] * b[2], a[2] * b[1])
RatLess(a, b) == a[1] * b[2] < b[1] * a[2]
RatLeq(a, b) == a[1] * b[2] <= b[1] * a[2]

(* Python's round() of a float: to the nearest integer, ties to the even one. *)
RoundHalfEven(r) ==
  LET q == r[1] \div r[2]
      rem == r[1] - q * r[2]
  IN IF 2 * rem < r[2] THEN q
     ELSE IF 2 * rem > r[2] THEN q + 1
     ELSE IF q % 2 = 0 THEN q ELSE q + 1

RatPoint(p) == <<RatInt(p[1]), RatInt(p[2])>>

RECURSIVE SumSeq(_)
SumSeq(s) == IF s = <<>> THEN 0 ELSE Head(s) + SumSeq(Tail(s))

RECURSIVE Flatten(_)
Flatten(ss) == IF ss = <<>> THEN <<>> ELSE Head(ss) \o Flatten(Tail(ss))

Range(s) == {s[k] : k \in DOMAIN s}
Occurrences(s, e) == Cardinality({k \in DOMAIN s : s[k] = e})

----------------------------------------------------------------------------
(* _connect_segments_fast *)

MaxSegs == 3

StitchCoords == {<<0, 0>>, <<1, 1>>, <<2, 3>>}
StitchPoints == {RatPoint(p) : p \in StitchCoords}
StitchTolerances == {RatInt(1), RatInt(2)}

(* tolerance = 1e-8 in coordinate units of 2^-28: 2^28 / 10^8 = 2^20 / 5^8 *)
DefaultTolerance == Rat(2^20, 5^8)

(* a / b for b > 0, not reduced to lowest terms *)
Quotient(a, b) == <<a[1] * b[2], a[2] * b[1]>>

(* quantize(p) = (round(p[0] / tolerance), round(p[1] / tolerance)) *)
quantize(p) ==
  <<RoundHalfEven(Quotient(p[1], tolerance)), RoundHalfEven(Quotient(p[2], tolerance))>>

(* The entries appended to the adjacency lists, in the order of the loop:
   (seg_idx, 0) then (seg_idx, 1) for each segment. *)
AdjacencyEntries ==
  [k \in 1..(2 * Len(segments)) |-> <<(k + 1) \div 2, (k + 1) % 2>>]

EntryPoint(e) == segments[e[1]][e[2] + 1]

(* adjacency[q] *)
adjacency(q) == SelectSeq(AdjacencyEntries, LAMBDA e : quantize(EntryPoint(e)) = q)

(* The direction list of the extension loop: 1 = from the end, 0 = from the start. *)
DirectionsForwardOnly == <<1>>
Directions == <<1, 0>>

direction == Directions[dirIdx]

(* end_point = path[-1] if direction == 1 else path[0] *)
end_point == IF direction = 1 THEN path[Len(path)] ELSE path[1]

(* The first entry of adj whose segment is unused (0: none), the scan of the
   inner for loop. *)
RECURSIVE FirstUnusedFrom(_, _)
FirstUnusedFrom(adj, k) ==
  IF k > Len(adj) THEN 0
  ELSE IF ~used[adj[k][1]] THEN k
  ELSE FirstUnusedFrom(adj, k + 1)

(* new_point = seg[1] if endpoint_idx == 0 else seg[0] *)
NewPointAlwaysSecond(e) == segments[e[1]][2]
NewPoint(e) == IF e[2] = 0 THEN segments[e[1]][2] ELSE segments[e[1]][1]

(* if used[start_idx]: continue *)
SeedAlways(i) == TRUE
SeedAllowed(i) == ~used[i]

(* The order in which the for loop visits the segments. *)
SeedOrderReversed(i) == Len(segments) + 1 - i
SeedOrder(i) == i

curSeed == SeedOrder(start_idx)

(* if not segments: return []; else the adjacency is built and the loop begins *)
ConnectStart ==
  /\ pc = "connect"
  /\ IF segments = <<>>
     THEN /\ pc' = "done"
          /\ paths' = <<>>
          /\ used' = <<>>
     ELSE /\ pc' = "for"
          /\ paths' = <<>>
          /\ used' = [k \in 1..Len(segments) |-> FALSE]
  /\ start_idx' = 1
  /\ path' = <<>>
  /\ dirIdx' = 1
  /\ pathSegs' = <<>>
  /\ seeds' = <<>>
  /\ curSegs' = <<>>
  /\ UNCHANGED <<segments, tolerance, gridVars, segCell, polyVars, callVars>>

(* for start_idx ...: if used[start_idx]: continue *)
SkipUsed ==
  /\ pc = "for"
  /\ start_idx <= Len(segments)
  /\ ~SeedAllowed(curSeed)
  /\ start_idx' = start_idx + 1
  /\ UNCHANGED <<segments, tolerance, used, paths, path, dirIdx, pathSegs, seeds, curSegs,
                 gridVars, segCell, polyVars, callVars, pc>>

(* used[start_idx] = True; path = [seg[0], seg[1]] *)
StartPath ==
  /\ pc = "for"
  /\ start_idx <= Len(segments)
  /\ SeedAllowed(curSeed)
  /\ used' = [used EXCEPT ![curSeed] = TRUE]
  /\ path' = <<segments[curSeed][1], segments[curSeed][2]>>
  /\ curSegs' = <<curSeed>>
  /\ dirIdx' = 1
  /\ pc' = "extend"
  /\ UNCHANGED <<segments, tolerance, paths, start_idx, pathSegs, seeds,
                 gridVars, segCell, polyVars, callVars>>

(* One pass of the while loop that finds an unused neighbour. *)
ExtendPath ==
  /\ pc = "extend"
  /\ dirIdx <= Len(Directions)
  /\ LET adj == adjacency(quantize(end_point))
         k == FirstUnusedFrom(adj, 1)
     IN /\ k > 0
        /\ used' = [used EXCEPT ![adj[k][1]] = TRUE]
        /\ IF direction = 1
           THEN /\ path' = Append(path, NewPoint(adj[k]))
                /\ curSegs' = Append(curSegs, adj[k][1])
           ELSE /\ path' = <<NewPoint(adj[k])>> \o path
                /\ curSegs' = <<adj[k][1]>> \o curSegs
  /\ UNCHANGED <<segments, tolerance, paths, start_idx, dirIdx, pathSegs, seeds,
                 gridVars, segCell, polyVars, callVars, pc>>

(* One pass of the while loop that finds none: break, next direction. *)
EndDirection ==
  /\ pc = "extend"
  /\ dirIdx <= Len(Directions)
  /\ FirstUnusedFrom(adjacency(quantize(end_point)), 1) = 0
  /\ dirIdx' = dirIdx + 1
  /\ UNCHANGED <<segments, tolerance, used, paths, path, start_idx, pathSegs, seeds, curSegs,
                 gridVars, segCell, polyVars, callVars, pc>>

(* paths.append(np.array(path)) *)
EmitPath ==
  /\ pc = "extend"
  /\ dirIdx > Len(Directions)
  /\ paths' = Append(paths, path)
  /\ pathSegs' = Append(pathSegs, curSegs)
  /\ seeds' = Append(seeds, curSeed)
  /\ path' = <<>>
  /\ curSegs' = <<>>
  /\ dirIdx' = 1
  /\ start_idx' = start_idx + 1
  /\ pc' = "for"
  /\ UNCHANGED <<segments, tolerance, used, gridVars, segCell, polyVars, callVars>>

(* return paths *)
ConnectReturn ==
  /\ pc = "for"
  /\ start_idx > Len(segments)
  /\ pc' = "done"
  /\ UNCHANGED <<stitchVars, gridVars, segCell, polyVars, callVars>>

Connect == ConnectStart \/ SkipUsed \/ StartPath \/ ExtendPath \/ EndDirection
             \/ EmitPath \/ ConnectReturn

RECURSIVE SeqsUpTo(_, _)
SeqsUpTo(S, n) ==
  IF n = 0 THEN {<<>>}
  ELSE LET shorter == SeqsUpTo(S, n - 1)
       IN shorter \cup {Append(s, e) : s \in {t \in shorter : Len(t) = n - 1}, e \in S}

NoGrid == [shape |-> <<0, 0>>, val |-> <<>>]

Init ==
  /\ segments \in SeqsUpTo(StitchPoints \X StitchPoints, MaxSegs)
  /\ tolerance \in StitchTolerances
  /\ used = <<>>
  /\ paths = <<>>
  /\ path = <<>>
  /\ start_idx = 1
  /\ dirIdx = 1
  /\ pathSegs = <<>>
  /\ seeds = <<>>
  /\ curSegs = <<>>
  /\ x = <<>>
  /\ y = <<>>
  /\ z = NoGrid
  /\ level = 0
  /\ segCell = <<>>
  /\ points = <<>>
  /\ polygon = <<>>
  /\ inside = <<>>
  /\ call = 1
  /\ scale = 1
  /\ ref = <<>>
  /\ pc = "connect"

Next == Connect

Spec == Init /\ [][Next]_vars

(* Longer segment lists, for paths that grow at both ends and leave segments
   behind: the segments between neighbouring points of a polyline through
   four points, in both orientations, and the zero-length segments at its
   last two points.  With tolerance 2 the first two points share the key
   (0, 0) (0.5 rounds to 0), so the segment between them has both ends in
   one key, and the other two have the keys (1, 2) and (2, 2) (1.5 and 2.5
   round to 2).  Spec above takes every pair of its points as a segment. *)
MaxChain == 4

ChainCoords == << <<0, 0>>, <<1, 1>>, <<2, 3>>, <<4, 5>> >>
ChainEnds ==
  {d \in (1..Len(ChainCoords)) \X (1..Len(ChainCoords)) :
     \/ Abs(d[1] - d[2]) = 1
     \/ d[1] = d[2] /\ d[1] > 2}
ChainSegments ==
  {<<RatPoint(ChainCoords[d[1]]), RatPoint(ChainCoords[d[2]])>> : d \in ChainEnds}
ChainTolerance == RatInt(2)

InitChain ==
  /\ segments \in SeqsUpTo(ChainSegments, MaxChain)
  /\ tolerance = ChainTolerance
  /\ used = <<>>
  /\ paths = <<>>
  /\ path = <<>>
  /\ start_idx = 1
  /\ dirIdx = 1
  /\ pathSegs = <<>>
  /\ seeds = <<>>
  /\ curSegs = <<>>
  /\ x = <<>>
  /\ y = <<>>
  /\ z = NoGrid
  /\ level = 0
  /\ segCell = <<>>
  /\ points = <<>>
  /\ polygon = <<>>
  /\ inside = <<>>
  /\ call = 1
  /\ scale = 1
  /\ ref = <<>>
  /\ pc = "connect"

NextChain == Connect

SpecChain == InitChain /\ [][NextChain]_vars

----------------------------------------------------------------------------
(* find_contours *)

(* A sample of z is <<v>> (the number v * 2^-34) or NaN. *)
NaN == <<>>
Num(v) == <<v>>
isnan(s) == s = NaN

MaxCols == 3
GridStep == 12
RowCounts == 0..2
ColCounts == 0..MaxCols
Samples == {NaN, Num(-1), Num(0), Num(11)}
Levels == {0, 11}

ny == z.shape[1]
nx == z.shape[2]

(* The corner samples of cell c = <<i, j>> (row i, column j, 1-based):
   z00 = z[:-1, :-1], z01 = z[:-1, 1:], z11 = z[1:, 1:], z10 = z[1:, :-1] *)
z00(c) == z.val[c[1]][c[2]]
z01(c) == z.val[c[1]][c[2] + 1]
z11(c) == z.val[c[1] + 1][c[2] + 1]
z10(c) == z.val[c[1] + 1][c[2]]

(* valid = ~(isnan(z00) | isnan(z01) | isnan(z11) | isnan(z10)) *)
validIgnoringNaN(c) == TRUE
valid(c) == ~(isnan(z00(c)) \/ isnan(z01(c)) \/ isnan(z11(c)) \/ isnan(z10(c)))

(* (v >= level).astype(int); a comparison with NaN is false *)
above(s) == IF ~isnan(s) /\ s[1] >= level THEN 1 ELSE 0

case_index(c) == above(z00(c)) + 2 * above(z01(c)) + 4 * above(z11(c)) + 8 * above(z10(c))

EDGE_TABLE_CASE6_WRONG ==
  [k \in 0..15 |->
    CASE k = 1 -> << <<3, 0>> >>            [] k = 2 -> << <<0, 1>> >>
      [] k = 3 -> << <<3, 1>> >>            [] k = 4 -> << <<1, 2>> >>
      [] k = 5 -> << <<3, 0>>, <<1, 2>> >>  [] k = 6 -> << <<1, 3>> >>
      [] k = 7 -> << <<3, 2>> >>            [] k = 8 -> << <<2, 3>> >>
      [] k = 9 -> << <<2, 0>> >>            [] k = 10 -> << <<0, 1>>, <<2, 3>> >>
      [] k = 11 -> << <<2, 1>> >>           [] k = 12 -> << <<1, 3>> >>
      [] k = 13 -> << <<1, 0>> >>           [] k = 14 -> << <<0, 3>> >>
      [] OTHER -> <<>>]

EDGE_TABLE ==
  [k \in 0..15 |->
    CASE k = 1 -> << <<3, 0>> >>            [] k = 2 -> << <<0, 1>> >>
      [] k = 3 -> << <<3, 1>> >>            [] k = 4 -> << <<1, 2>> >>
      [] k = 5 -> << <<3, 0>>, <<1, 2>> >>  [] k = 6 -> << <<0, 2>> >>
      [] k = 7 -> << <<3, 2>> >>            [] k = 8 -> << <<2, 3>> >>
      [] k = 9 -> << <<2, 0>> >>            [] k = 10 -> << <<0, 1>>, <<2, 3>> >>
      [] k = 11 -> << <<2, 1>> >>           [] k = 12 -> << <<1, 3>> >>
      [] k = 13 -> << <<1, 0>> >>           [] k = 14 -> << <<0, 3>> >>
      [] OTHER -> <<>>]

(* np.abs(dv) < 1e-10, for dv in units of 2^-34: |dv| * 5^10 < 2^24 *)
SmallDv(dv) == Abs(dv) * (5^10) < 2^24

(* interp_edge(edge_idx) at one cell: <<va, vb, xa, xb, ya, yb>> and the point.
   A NaN operand makes both coordinates NaN. *)
EdgeEnds(c, edge_idx) ==
  LET i == c[1]
      j == c[2]
  IN IF edge_idx = 0 THEN <<z00(c), z01(c), x[j], x[j + 1], y[i], y[i]>>
     ELSE IF edge_idx = 1 THEN <<z01(c), z11(c), x[j + 1], x[j + 1], y[i], y[i + 1]>>
     ELSE IF edge_idx = 2 THEN <<z11(c), z10(c), x[j + 1], x[j], y[i + 1], y[i + 1]>>
     ELSE <<z10(c), z00(c), x[j], x[j], y[i + 1], y[i]>>

interp_edge(c, edge_idx) ==
  LET e == EdgeEnds(c, edge_idx)
  IN IF isnan(e[1]) \/ isnan(e[2]) THEN <<NaN, NaN>>
     ELSE LET va == e[1][1]
              vb == e[2][1]
              dv == vb - va
              t == IF SmallDv(dv) THEN Rat(1, 2) ELSE Rat(level - va, dv)
          IN <<RatAdd(RatInt(e[3]), RatMul(t, RatInt(e[4] - e[3]))),
               RatAdd(RatInt(e[5]), RatMul(t, RatInt(e[6] - e[5])))>>

(* The cells in the order of boolean-mask indexing (row-major). *)
Cells ==
  [k \in 1..((ny - 1) * (nx - 1)) |-> <<((k - 1) \div (nx - 1)) + 1, ((k - 1) % (nx - 1)) + 1>>]

(* ci, cj = cell_i[mask], cell_j[mask] with mask = (case_index == case) & valid *)
MaskedCells(case) == SelectSeq(Cells, LAMBDA c : case_index(c) = case /\ valid(c))

(* What the loops over case, edge pair and masked cell append, in order:
   for each segment its cell and its two edges. *)
RECURSIVE PairsFrom(_, _)
PairsFrom(case, n) ==
  IF n > Len(EDGE_TABLE[case]) THEN <<>>
  ELSE LET m == MaskedCells(case)
           ep == EDGE_TABLE[case][n]
       IN [k \in 1..Len(m) |-> [cell |-> m[k], e1 |-> ep[1], e2 |-> ep[2]]]
            \o PairsFrom(case, n + 1)

RECURSIVE CasesFrom(_)
CasesFrom(case) ==
  IF case > 14 THEN <<>> ELSE PairsFrom(case, 1) \o CasesFrom(case + 1)

(* all_segments.append(((px1[k], py1[k]), (px2[k], py2[k]))) *)
SegmentOf(d) == <<interp_edge(d.cell, d.e1), interp_edge(d.cell, d.e2)>>

ShapeMismatch == Len(x) # nx \/ Len(y) # ny
TooSmall == ny < 2 \/ nx < 2

(* The two checks that open find_contours, in their order. *)
PrecheckSizeFirst ==
  IF TooSmall THEN "done" ELSE IF ShapeMismatch THEN "error" ELSE "collect"
Precheck ==
  IF ShapeMismatch THEN "error" ELSE IF TooSmall THEN "done" ELSE "collect"

(* raise ValueError("Shape mismatch ...") *)
RaiseShapeMismatch ==
  /\ pc = "find_contours"
  /\ Precheck = "error"
  /\ pc' = "error"
  /\ UNCHANGED <<stitchVars, gridVars, segCell, polyVars, callVars>>

(* if ny < 2 or nx < 2: return [] *)
ReturnEmpty ==
  /\ pc = "find_contours"
  /\ Precheck = "done"
  /\ paths' = <<>>
  /\ pc' = "done"
  /\ UNCHANGED <<segments, tolerance, used, path, start_idx, dirIdx, pathSegs, seeds,
                 curSegs, gridVars, segCell, polyVars, callVars>>

(* The loops that fill all_segments, then the call
   _connect_segments_fast(all_segments) with the default tolerance. *)
CollectSegments ==
  /\ pc = "find_contours"
  /\ Precheck = "collect"
  /\ segCell' = CasesFrom(1)
  /\ segments' = [k \in DOMAIN segCell' |-> SegmentOf(segCell'[k])]
  /\ tolerance' = DefaultTolerance
  /\ pc' = "connect"
  /\ UNCHANGED <<used, paths, path, start_idx, dirIdx, pathSegs, seeds, curSegs,
                 gridVars, polyVars, callVars>>

FindContours == RaiseShapeMismatch \/ ReturnEmpty \/ CollectSegments \/ Connect

Grid(n) == [k \in 1..n |-> GridStep * (k - 1)]

Filled(rows, cols) == [i \in 1..rows |-> [j \in 1..cols |-> Num(0)]]

GridsOfShape(rows, cols) ==
  {[shape |-> <<rows, cols>>, val |-> val] : val \in [1..rows -> [1..cols -> Samples]]}

(* Every grid with coordinate lengths that match its shape, and, for each
   mismatching choice of lengths (where z is never read), one grid. *)
InitContour ==
  /\ \E rows \in RowCounts, cols \in ColCounts :
       \/ /\ x = Grid(cols)
          /\ y = Grid(rows)
          /\ z \in GridsOfShape(rows, cols)
       \/ /\ x \in {Grid(n) : n \in ColCounts}
          /\ y \in {Grid(n) : n \in RowCounts}
          /\ Len(x) # cols \/ Len(y) # rows
          /\ z = [shape |-> <<rows, cols>>, val |-> Filled(rows, cols)]
  /\ level \in Levels
  /\ segments = <<>>
  /\ tolerance = DefaultTolerance
  /\ used = <<>>
  /\ paths = <<>>
  /\ path = <<>>
  /\ start_idx = 1
  /\ dirIdx = 1
  /\ pathSegs = <<>>
  /\ seeds = <<>>
  /\ curSegs = <<>>
  /\ segCell = <<>>
  /\ points = <<>>
  /\ polygon = <<>>
  /\ inside = <<>>
  /\ call = 1
  /\ scale = 1
  /\ ref = <<>>
  /\ pc = "find_contours"

NextContour == FindContours

SpecContour == InitContour /\ [][NextContour]_vars

(* The caller's second call, on the same grid with its coordinates
   multiplied by a positive constant. *)
MaxScale == 2

Rescale ==
  /\ pc = "done"
  /\ call = 1
  /\ \E c \in 1..MaxScale :
       /\ scale' = c
       /\ x' = [k \in DOMAIN x |-> c * x[k]]
       /\ y' = [k \in DOMAIN y |-> c * y[k]]
  /\ call' = 2
  /\ ref' = paths
  /\ segments' = <<>>
  /\ used' = <<>>
  /\ paths' = <<>>
  /\ path' = <<>>
  /\ start_idx' = 1
  /\ dirIdx' = 1
  /\ pathSegs' = <<>>
  /\ seeds' = <<>>
  /\ curSegs' = <<>>
  /\ segCell' = <<>>
  /\ pc' = "find_contours"
  /\ UNCHANGED <<tolerance, z, level, polyVars>>

(* The grids of at most one cell. *)
InitScale ==
  /\ InitContour
  /\ z.shape[2] <= 2

NextScale == FindContours \/ Rescale

SpecScale == InitScale /\ [][NextScale]_vars

----------------------------------------------------------------------------
(* points_in_polygon.  Coordinates are integers. *)

MaxPoints == 2
MinVertices == 3

n_points == Len(points)
n_vertices == Len(polygon)

(* np.zeros(n_points, dtype=bool) *)
ZerosPerVertex == [k \in 1..n_vertices |-> FALSE]
Zeros == [k \in 1..n_points |-> FALSE]

(* np.allclose(a, b) with its defaults rtol = 1e-5 and atol = 1e-8:
   |a - b| <= atol + rtol * |b| in every coordinate.  For integers, with both
   sides multiplied by 10^8: |a - b| <= (1 + 1000 * |b|) / 10^8, rounded down. *)
isclose(a, b) == Abs(a - b) <= (1 + 1000 * Abs(b)) \div (10^8)
allclose(p, q) == isclose(p[1], q[1]) /\ isclose(p[2], q[2])

(* crossings[n, m] for point pt and the edge from v1 to v2 *)
crossing(pt, v1, v2) ==
  LET non_horizontal == v1[2] # v2[2]
      cond1 == (v1[2] > pt[2]) # (v2[2] > pt[2])
      dy == IF v2[2] - v1[2] = 0 THEN 1 ELSE v2[2] - v1[2]
      x_intersect == RatAdd(RatInt(v1[1]), Rat((pt[2] - v1[2]) * (v2[1] - v1[1]), dy))
      cond2 == RatLess(RatInt(pt[1]), x_intersect)
  IN cond1 /\ cond2 /\ non_horizontal

(* crossing_count = np.sum(crossings, axis=1), over the edges
   polygon[:-1] -> polygon[1:] *)
crossing_count(pt) ==
  Cardinality({m \in 1..(Len(polygon) - 1) : crossing(pt, polygon[m], polygon[m + 1])})

(* if n_vertices < 3: return np.zeros(n_points, dtype=bool) *)
ReturnAllFalse ==
  /\ pc = "points_in_polygon"
  /\ n_vertices < MinVertices
  /\ inside' = Zeros
  /\ pc' = "done"
  /\ UNCHANGED <<stitchVars, gridVars, segCell, points, polygon, callVars>>

(* if not np.allclose(polygon[0], polygon[-1]): polygon = np.vstack([polygon, polygon[0]]) *)
ClosePolygon ==
  /\ pc = "points_in_polygon"
  /\ n_vertices >= MinVertices
  /\ polygon' = IF ~allclose(polygon[1], polygon[Len(polygon)])
                THEN Append(polygon, polygon[1])
                ELSE polygon
  /\ pc' = "cast"
  /\ UNCHANGED <<stitchVars, gridVars, segCell, points, inside, callVars>>

(* return (crossing_count % 2) == 1 *)
CastRays ==
  /\ pc = "cast"
  /\ inside' = [k \in 1..n_points |-> crossing_count(points[k]) % 2 = 1]
  /\ pc' = "done"
  /\ UNCHANGED <<stitchVars, gridVars, segCell, points, polygon, callVars>>

PointsInPolygon == ReturnAllFalse \/ ClosePolygon \/ CastRays

(* The inputs: axis-aligned rectangles with sides 1 or 2, near the origin and
   far up the y axis, in both windings, from every corner, with and without
   the first corner repeated; polygons of fewer than 3 vertices; batches of
   points around them. *)
RectSides == {1, 2}
YBases == {0, 2 * 10^5}
Corners(yb, w, h) == << <<0, yb>>, <<w, yb>>, <<w, yb + h>>, <<0, yb + h>> >>
Rotated(s, r) == [k \in DOMAIN s |-> s[((k - 1 + r) % Len(s)) + 1]]
Reversed(s) == [k \in DOMAIN s |-> s[Len(s) + 1 - k]]
Rectangles(yb) ==
  LET open == {Rotated(c, r) : r \in 0..3,
                 c \in UNION {{Corners(yb, w, h), Reversed(Corners(yb, w, h))} :
                                w \in RectSides, h \in RectSides}}
  IN open \cup {Append(s, s[1]) : s \in open}
FewVertices == SeqsUpTo({<<0, 0>>, <<2, 0>>, <<2, 2>>}, MinVertices - 1)
PointsNear(yb) == {<<px, yb + dy>> : px \in {-1, 1, 3}, dy \in {-1, 1, 3}}

InitPolygon ==
  /\ \E yb \in YBases :
       /\ polygon \in Rectangles(yb) \cup (IF yb = 0 THEN FewVertices ELSE {})
       /\ points \in SeqsUpTo(PointsNear(yb), MaxPoints)
  /\ inside = <<>>
  /\ segments = <<>>
  /\ tolerance = DefaultTolerance
  /\ used = <<>>
  /\ paths = <<>>
  /\ path = <<>>
  /\ start_idx = 1
  /\ dirIdx = 1
  /\ pathSegs = <<>>
  /\ seeds = <<>>
  /\ curSegs = <<>>
  /\ x = <<>>
  /\ y = <<>>
  /\ z = NoGrid
  /\ level = 0
  /\ segCell = <<>>
  /\ call = 1
  /\ scale = 1
  /\ ref = <<>>
  /\ pc = "points_in_polygon"

NextPolygon == PointsInPolygon

SpecPolygon == InitPolygon /\ [][NextPolygon]_vars

----------------------------------------------------------------------------
(* Claims about _connect_segments_fast, checked under Spec and SpecChain. *)

Segs == 1..Len(segments)
Key(i, e) == quantize(segments[i][e])
SegKeys(i) == {Key(i, 1), Key(i, 2)}
KeysOf(L) == UNION {SegKeys(i) : i \in L}
Emitting == pc = "extend" /\ dirIdx > Len(Directions)

(* C1: every segment is consumed by exactly one path, exactly once (as its
   seed or as one extension step): while stitching runs a segment is in the
   built paths once if it is marked used and not at all otherwise, and on
   return every segment is in exactly one output path and the paths'
   (number of points - 1) sum to the number of segments. *)
C1_Conservation ==
  /\ \A i \in DOMAIN used :
       Occurrences(Flatten(pathSegs) \o curSegs, i) = (IF used[i] THEN 1 ELSE 0)
  /\ pc = "done" =>
       /\ \A i \in Segs : Occurrences(Flatten(pathSegs), i) = 1
       /\ Len(pathSegs) = Len(paths)
       /\ \A k \in DOMAIN paths : Len(paths[k]) = Len(pathSegs[k]) + 1
       /\ SumSeq([k \in DOMAIN paths |-> Len(paths[k]) - 1]) = Len(segments)

(* A returned stitching of three segments with a junction (a key holding
   three or more segment ends) and a segment with both ends in one key. *)
C1_Witness ==
  /\ pc = "done"
  /\ Len(segments) = 3
  /\ \E i \in Segs : Len(adjacency(Key(i, 1))) >= 3
  /\ \E i \in Segs : Key(i, 1) = Key(i, 2)
  /\ \E i \in Segs : segments[i][1] # segments[i][2] /\ Key(i, 1) = Key(i, 2)

(* A closed loop: a nonempty set of segments whose keys hold exactly two
   segment ends each, both of the set, and which no key-disjoint split divides. *)
ClosedLoop(L) ==
  /\ L # {}
  /\ \A q \in KeysOf(L) :
       LET adj == adjacency(q)
       IN Len(adj) = 2 /\ adj[1][1] \in L /\ adj[2][1] \in L
  /\ \A M \in (SUBSET L) \ {{}, L} : KeysOf(M) \cap KeysOf(L \ M) # {}

(* C2: on return, each closed loop is exactly one output path, holding all the
   loop's segments and nothing else, whose first and last points have the
   same quantized key. *)
C2_Closure ==
  pc = "done" =>
    \A L \in SUBSET Segs :
      ClosedLoop(L) =>
        /\ Cardinality({k \in DOMAIN pathSegs : Range(pathSegs[k]) \cap L # {}}) = 1
        /\ \E k \in DOMAIN pathSegs :
             /\ Range(pathSegs[k]) = L
             /\ Len(paths[k]) = Cardinality(L) + 1
             /\ quantize(paths[k][1]) = quantize(paths[k][Len(paths[k])])

(* A returned stitching holding a loop of two or more segments whose ends
   differ as points and agree only as keys, one of whose segments was entered
   from its second endpoint (its first endpoint became the new point). *)
C2_Witness ==
  /\ pc = "done"
  /\ \E L \in SUBSET Segs :
       /\ ClosedLoop(L)
       /\ Cardinality(L) >= 2
       /\ \E k \in DOMAIN paths :
            /\ Range(pathSegs[k]) = L
            /\ paths[k][1] # paths[k][Len(paths[k])]
            /\ \E j \in 2..Len(pathSegs[k]) :
                 /\ segments[pathSegs[k][j]][1] = paths[k][j + 1]
                 /\ segments[pathSegs[k][j]][2] # paths[k][j + 1]

(* C6: paths are seeded in increasing segment order, each by the lowest
   segment that no earlier path holds; this also fixes the path being built. *)
C6_SeedOrder ==
  /\ \A k \in DOMAIN seeds :
       /\ \A i \in Segs :
            i < seeds[k] => \E j \in 1..(k - 1) : i \in Range(pathSegs[j])
       /\ \A j \in 1..(k - 1) : seeds[j] < seeds[k] /\ seeds[k] \notin Range(pathSegs[j])
       /\ seeds[k] \in Range(pathSegs[k])
  /\ pc = "extend" =>
       /\ \A i \in Segs :
            i < curSeed => \E j \in DOMAIN pathSegs : i \in Range(pathSegs[j])
       /\ \A j \in DOMAIN seeds : seeds[j] < curSeed

(* A returned stitching of two or more paths where a later path is seeded by
   a segment that is not the next one after the previous seed. *)
C6_Witness ==
  /\ pc = "done"
  /\ Len(seeds) >= 2
  /\ seeds[2] > seeds[1] + 1

(* Consecutive points k, k+1 of pth are joined by segment sgs[k]: in one of its
   two orientations both keys match and the far point is the segment's own. *)
Joined(pth, sgs, k) ==
  \E o \in {<<1, 2>>, <<2, 1>>} :
    LET a == segments[sgs[k]][o[1]]
        b == segments[sgs[k]][o[2]]
    IN /\ quantize(pth[k]) = quantize(a)
       /\ quantize(pth[k + 1]) = quantize(b)
       /\ (pth[k] = a \/ pth[k + 1] = b)

(* C10: when a path is emitted no unused segment has an endpoint in the key of
   the path's first or last point, and consecutive points of every path are
   the endpoints of one consumed segment, the near one matched by key. *)
C10_Maximal ==
  /\ Emitting =>
       \A i \in Segs :
         ~used[i] =>
           SegKeys(i) \cap {quantize(path[1]), quantize(path[Len(path)])} = {}
  /\ \A k \in 1..(Len(path) - 1) : Joined(path, curSegs, k)
  /\ \A n \in DOMAIN paths :
       \A k \in 1..(Len(paths[n]) - 1) : Joined(paths[n], pathSegs[n], k)

(* Points k, k+1 of pth are joined by segment sgs[k] through a key alone: the
   segment is not the pair of the two points in either orientation. *)
KeyOnly(pth, sgs, k) ==
  /\ segments[sgs[k]] # <<pth[k], pth[k + 1]>>
  /\ segments[sgs[k]] # <<pth[k + 1], pth[k]>>

(* A path about to be emitted that grew at its end in the forward pass and
   then at its start in the backward pass, one of its joins made through a
   key alone, while a segment is still unused. *)
C10_Witness ==
  /\ Emitting
  /\ Len(path) >= 4
  /\ curSegs[1] # curSeed
  /\ curSegs[Len(curSegs)] # curSeed
  /\ \E k \in 1..(Len(path) - 1) : KeyOnly(path, curSegs, k)
  /\ \E i \in Segs : ~used[i]

----------------------------------------------------------------------------
(* Claims about find_contours, checked under SpecContour and SpecScale. *)

AllCells == {<<i, j>> : i \in 1..(ny - 1), j \in 1..(nx - 1)}

(* Corner k of a cell (0 = bottom-left, 1 = bottom-right, 2 = top-right,
   3 = top-left): its sample and its grid position.  Edge e joins corner e
   and corner (e + 1) mod 4. *)
CornerSample(c, k) ==
  IF k = 0 THEN z00(c) ELSE IF k = 1 THEN z01(c) ELSE IF k = 2 THEN z11(c) ELSE z10(c)
CornerX(c, k) == IF k \in {0, 3} THEN x[c[2]] ELSE x[c[2] + 1]
CornerY(c, k) == IF k \in {0, 1} THEN y[c[1]] ELSE y[c[1] + 1]
HasNaN(c) == \E k \in 0..3 : isnan(CornerSample(c, k))

Between(a, r, b) ==
  \/ RatLeq(RatInt(a), r) /\ RatLeq(r, RatInt(b))
  \/ RatLeq(RatInt(b), r) /\ RatLeq(r, RatInt(a))

(* r is where the line from (a, va) to (b, vb) takes the value level *)
AtLevel(a, va, b, vb, r) ==
  RatMul(RatInt(vb - va), RatSub(r, RatInt(a))) = RatInt((level - va) * (b - a))

(* r is midway between a and b *)
AtMiddle(a, b, r) == RatMul(RatInt(2), RatSub(r, RatInt(a))) = RatInt(b - a)

(* Point p is the crossing of edge e of cell c. *)
IsCrossing(c, e, p) ==
  LET a == e
      b == (e + 1) % 4
      sa == CornerSample(c, a)
      sb == CornerSample(c, b)
  IN /\ ~isnan(sa) /\ ~isnan(sb)
     /\ (sa[1] >= level) # (sb[1] >= level)
     /\ Between(CornerX(c, a), p[1], CornerX(c, b))
     /\ Between(CornerY(c, a), p[2], CornerY(c, b))
     /\ IF SmallDv(sb[1] - sa[1])
        THEN /\ AtMiddle(CornerX(c, a), CornerX(c, b), p[1])
             /\ AtMiddle(CornerY(c, a), CornerY(c, b), p[2])
        ELSE /\ AtLevel(CornerX(c, a), sa[1], CornerX(c, b), sb[1], p[1])
             /\ AtLevel(CornerY(c, a), sa[1], CornerY(c, b), sb[1], p[2])

(* C3: each endpoint of each generated segment lies on an edge of its cell
   whose corners are on opposite sides of the level, between the two corners,
   where the linear interpolation of the corner values is the level, or at the
   edge's midpoint when the corner values differ by less than 1e-10.  Stated
   of the segment list as find_contours hands it to the stitching. *)
C3_EdgeInterpolation ==
  pc = "connect" =>
    \A k \in DOMAIN segCell :
      /\ IsCrossing(segCell[k].cell, segCell[k].e1, segments[k][1])
      /\ IsCrossing(segCell[k].cell, segCell[k].e2, segments[k][2])

(* Segments were generated with an endpoint at an edge's midpoint (corner
   values closer than 1e-10) and one strictly inside its edge elsewhere. *)
C3_Witness ==
  /\ pc = "connect"
  /\ \E k \in DOMAIN segCell, e \in 1..2 :
       LET c == segCell[k].cell
           ed == IF e = 1 THEN segCell[k].e1 ELSE segCell[k].e2
       IN SmallDv(CornerSample(c, ed)[1] - CornerSample(c, (ed + 1) % 4)[1])
  /\ \E k \in DOMAIN segCell, e \in 1..2 :
       LET c == segCell[k].cell
           ed == IF e = 1 THEN segCell[k].e1 ELSE segCell[k].e2
           p == segments[k][e]
       IN /\ ~SmallDv(CornerSample(c, ed)[1] - CornerSample(c, (ed + 1) % 4)[1])
          /\ \A n \in {ed, (ed + 1) % 4} :
               p # <<RatInt(CornerX(c, n)), RatInt(CornerY(c, n))>>

EdgesOf(c) ==
  LET mine == SelectSeq(segCell, LAMBDA d : d.cell = c)
  IN [k \in DOMAIN mine |-> <<mine[k].e1, mine[k].e2>>]

(* C7: NaN raises no error; in the segment list handed to the stitching no
   segment comes from a cell with a NaN corner and a cell without NaN
   contributes the segments of its own case index, whatever the other cells
   hold; a grid whose cells all have a NaN corner returns no path. *)
C7_NaNTolerance ==
  /\ pc = "error" => ShapeMismatch
  /\ pc = "connect" =>
       /\ Len(segments) = Len(segCell)
       /\ \A k \in DOMAIN segCell : ~HasNaN(segCell[k].cell)
       /\ \A c \in AllCells :
            EdgesOf(c) = (IF HasNaN(c) THEN <<>> ELSE EDGE_TABLE[case_index(c)])
  /\ (pc = "done" /\ \A c \in AllCells : HasNaN(c)) => paths = <<>>

(* A finished run on a grid where a cell with a NaN corner has a case index
   that would draw a segment, beside a NaN-free cell that contributed one. *)
C7_Witness ==
  /\ pc = "done"
  /\ paths # <<>>
  /\ \E c \in AllCells : HasNaN(c) /\ case_index(c) \notin {0, 15}
  /\ \E c \in AllCells : ~HasNaN(c) /\ EdgesOf(c) # <<>>

(* C8: the shape-mismatch error is raised exactly when len(x) or len(y)
   disagrees with z's shape, also for grids with fewer than 2 rows or columns,
   and no paths are returned then; a matching grid with fewer than 2 rows or
   columns returns the empty list without error. *)
C8_Preconditions ==
  /\ pc = "error" => ShapeMismatch
  /\ ShapeMismatch => (pc \in {"find_contours", "error"} /\ paths = <<>>)
  /\ (~ShapeMismatch /\ TooSmall) =>
       (pc \in {"find_contours", "done"} /\ paths = <<>> /\ segments = <<>>)
  /\ (~ShapeMismatch /\ ~TooSmall) => pc # "error"

(* The error raised for a grid that is both mismatching and too small. *)
C8_Witness == pc = "error" /\ ShapeMismatch /\ TooSmall

ScalePoint(c, p) == <<RatMul(RatInt(c), p[1]), RatMul(RatInt(c), p[2])>>
ScalePaths(c, ps) ==
  [n \in DOMAIN ps |-> [k \in DOMAIN ps[n] |-> ScalePoint(c, ps[n][k])]]

(* C5: the second call, on coordinates multiplied by scale, returns the first
   call's paths with every coordinate multiplied by scale. *)
C5_Scaling == (call = 2 /\ pc = "done") => paths = ScalePaths(scale, ref)

----------------------------------------------------------------------------
(* Claims about points_in_polygon, checked under SpecPolygon. *)

MinOf(S) == CHOOSE m \in S : \A n \in S : m <= n
MaxOf(S) == CHOOSE m \in S : \A n \in S : m >= n
Xs == {polygon[k][1] : k \in DOMAIN polygon}
Ys == {polygon[k][2] : k \in DOMAIN polygon}

(* The polygon is the four corners of an axis-aligned rectangle. *)
IsRectangle ==
  /\ Len(polygon) \in {4, 5}
  /\ Cardinality(Xs) = 2 /\ Cardinality(Ys) = 2
  /\ Range(polygon) = Xs \X Ys

StrictlyInside(pt) ==
  /\ MinOf(Xs) < pt[1] /\ pt[1] < MaxOf(Xs)
  /\ MinOf(Ys) < pt[2] /\ pt[2] < MaxOf(Ys)

StrictlyOutside(pt) ==
  \/ pt[1] < MinOf(Xs) \/ pt[1] > MaxOf(Xs)
  \/ pt[2] < MinOf(Ys) \/ pt[2] > MaxOf(Ys)

(* C4: for a rectangle, every point strictly inside is reported inside and
   every point strictly outside is reported outside. *)
C4_Rectangle ==
  (pc = "done" /\ IsRectangle) =>
    /\ Len(inside) = Len(points)
    /\ \A k \in DOMAIN points :
         /\ StrictlyInside(points[k]) => inside[k]
         /\ StrictlyOutside(points[k]) => ~inside[k]

(* C9: a polygon of 0, 1 or 2 vertices returns one false per query point. *)
C9_Degenerate ==
  /\ pc # "error"
  /\ n_vertices < MinVertices => pc \in {"points_in_polygon", "done"}
  /\ (pc = "done" /\ n_vertices < MinVertices) =>
       /\ Len(inside) = n_points
       /\ \A k \in DOMAIN inside : inside[k] = FALSE

(* A two-vertex polygon answered for a batch of two points. *)
C9_Witness ==
  /\ pc = "done"
  /\ n_vertices = 2
  /\ polygon[1] # polygon[2]
  /\ n_points = 2
  /\ inside = <<FALSE, FALSE>>

====
